---- MODULE Spec2Model ----
(***************************************************************************)
(* The OpenVPN status-file parser of status.go: Parse reads a stream line  *)
(* by line through a bufio.Scanner, parseLine classifies each line and     *)
(* moves the section state, and the section's parse function fills a       *)
(* Client or Route record from the comma-separated fields.                 *)
(*                                                                         *)
(* A Go string is modelled as a sequence of one-character strings, so      *)
(* that prefix, suffix, substring and split are computed on the text.      *)
(* A Go error is a string, "nil" for no error.                             *)
(***************************************************************************)
EXTENDS Integers, Sequences, FiniteSets, TLC

(***************************************************************************)
(* package strings                                                         *)
(***************************************************************************)
HasPrefix(s, p) == Len(s) >= Len(p) /\ SubSeq(s, 1, Len(p)) = p

HasSuffix(s, p) == Len(s) >= Len(p) /\ SubSeq(s, Len(s) - Len(p) + 1, Len(s)) = p

TrimSuffix(s, p) == IF HasSuffix(s, p) THEN SubSeq(s, 1, Len(s) - Len(p)) ELSE s

Contains(s, sub) ==
    \E i \in 1..(Len(s) - Len(sub) + 1) : SubSeq(s, i, i + Len(sub) - 1) = sub

\* 1-based index of the first c in s, 0 when there is none (Go: -1)
IndexByte(s, c) ==
    IF \E i \in 1..Len(s) : s[i] = c
    THEN CHOOSE i \in 1..Len(s) : s[i] = c /\ \A j \in 1..(i - 1) : s[j] # c
    ELSE 0

\* 1-based index of the last c in s, 0 when there is none
LastIndexByte(s, c) ==
    IF \E i \in 1..Len(s) : s[i] = c
    THEN CHOOSE i \in 1..Len(s) : s[i] = c /\ \A j \in (i + 1)..Len(s) : s[j] # c
    ELSE 0

\* strings.Split(s, sep) for a one-character separator: Split("", ",") is [""]
RECURSIVE Split(_, _)
Split(s, c) ==
    LET At(i) ==
            IF i = 0 THEN <<s>>
            ELSE <<SubSeq(s, 1, i - 1)>> \o Split(SubSeq(s, i + 1, Len(s)), c)
    IN  At(IndexByte(s, c))

(***************************************************************************)
(* package strconv                                                         *)
(***************************************************************************)
Digits == {"0", "1", "2", "3", "4", "5", "6", "7", "8", "9"}

DigitVal ==
    [c \in Digits |->
        CASE c = "0" -> 0 [] c = "1" -> 1 [] c = "2" -> 2 [] c = "3" -> 3
          [] c = "4" -> 4 [] c = "5" -> 5 [] c = "6" -> 6 [] c = "7" -> 7
          [] c = "8" -> 8 [] c = "9" -> 9]

AllDigits(s) == \A i \in 1..Len(s) : s[i] \in Digits

RECURSIVE DecVal(_)
DecVal(s) ==
    IF s = <<>> THEN 0
    ELSE 10 * DecVal(SubSeq(s, 1, Len(s) - 1)) + DigitVal[s[Len(s)]]

\* The longest decimal text whose value is computed; every number of the
\* inputs is shorter, so the uint64 and int ranges are never reached.
MaxDigits == 9

\* a faulty variant of ParseUint: text that is no number is read as 0
ParseUintAnyText(s) ==
    IF s # <<>> /\ AllDigits(s) /\ Len(s) <= MaxDigits
    THEN [err |-> "nil", v |-> DecVal(s)]
    ELSE [err |-> "nil", v |-> 0]

\* strconv.ParseUint(s, 10, 64): no sign, no empty text, digits only
ParseUint(s) ==
    IF s # <<>> /\ AllDigits(s) /\ Len(s) <= MaxDigits
    THEN [err |-> "nil", v |-> DecVal(s)]
    ELSE [err |-> "strconv.ParseUint: invalid syntax", v |-> 0]

\* strconv.Atoi(s): an optional sign, then digits
Atoi(s) ==
    LET Number(neg, body) ==
            IF body # <<>> /\ AllDigits(body) /\ Len(body) <= MaxDigits
            THEN [err |-> "nil", v |-> IF neg THEN 0 - DecVal(body) ELSE DecVal(body)]
            ELSE [err |-> "strconv.Atoi: invalid syntax", v |-> 0]
    IN  IF s # <<>> /\ s[1] \in {"+", "-"}
        THEN Number(s[1] = "-", SubSeq(s, 2, Len(s)))
        ELSE Number(FALSE, s)

(***************************************************************************)
(* package time: time.Parse with the layout "Mon Jan 2 15:04:05 2006".     *)
(* A time is the record of its calendar fields; the weekday is read and    *)
(* dropped. Names are matched in the case the daemon writes them, and      *)
(* fractional seconds are not read.                                        *)
(***************************************************************************)
shortDayNames ==
    { <<"S","u","n">>, <<"M","o","n">>, <<"T","u","e">>, <<"W","e","d">>,
      <<"T","h","u">>, <<"F","r","i">>, <<"S","a","t">> }

shortMonthNames ==
    << <<"J","a","n">>, <<"F","e","b">>, <<"M","a","r">>, <<"A","p","r">>,
       <<"M","a","y">>, <<"J","u","n">>, <<"J","u","l">>, <<"A","u","g">>,
       <<"S","e","p">>, <<"O","c","t">>, <<"N","o","v">>, <<"D","e","c">> >>

\* the zero time.Time{}: January 1, year 1, 00:00:00
ZeroTime == [year |-> 1, month |-> 1, day |-> 1, hour |-> 0, min |-> 0, sec |-> 0]

isLeap(y) == y % 4 = 0 /\ (y % 100 # 0 \/ y % 400 = 0)

daysIn(m, y) ==
    IF m = 2 THEN (IF isLeap(y) THEN 29 ELSE 28)
    ELSE IF m \in {4, 6, 9, 11} THEN 30 ELSE 31

\* the non-empty runs between spaces: a layout space matches one or more spaces
RECURSIVE SpaceFields(_)
SpaceFields(s) ==
    LET At(i) ==
            IF i = 0 THEN <<s>>
            ELSE <<SubSeq(s, 1, i - 1)>> \o SpaceFields(SubSeq(s, i + 1, Len(s)))
    IN  IF s = <<>> THEN <<>>
        ELSE IF s[1] = " " THEN SpaceFields(SubSeq(s, 2, Len(s)))
        ELSE At(IndexByte(s, " "))

TimeParse(value) ==
    LET bad == [err |-> "parsing time: cannot parse", v |-> ZeroTime]
        InRange(t) ==
            IF /\ t.hour < 24 /\ t.min < 60 /\ t.sec < 60
               /\ t.day >= 1 /\ t.day <= daysIn(t.month, t.year)
            THEN [err |-> "nil", v |-> t]
            ELSE [err |-> "parsing time: out of range", v |-> ZeroTime]
        Clock(f, clock) ==
            IF /\ f[1] \in shortDayNames
               /\ \E m \in 1..12 : shortMonthNames[m] = f[2]
               /\ Len(f[3]) \in {1, 2} /\ AllDigits(f[3])
               /\ Len(clock) = 3
               /\ Len(clock[1]) \in {1, 2} /\ AllDigits(clock[1])
               /\ Len(clock[2]) = 2 /\ AllDigits(clock[2])
               /\ Len(clock[3]) = 2 /\ AllDigits(clock[3])
               /\ Len(f[5]) = 4 /\ AllDigits(f[5])
            THEN InRange([year  |-> DecVal(f[5]),
                          month |-> CHOOSE m \in 1..12 : shortMonthNames[m] = f[2],
                          day   |-> DecVal(f[3]),
                          hour  |-> DecVal(clock[1]),
                          min   |-> DecVal(clock[2]),
                          sec   |-> DecVal(clock[3])])
            ELSE bad
        Fields(f) == IF Len(f) = 5 THEN Clock(f, Split(f[4], ":")) ELSE bad
    IN  IF value # <<>> /\ value[1] # " " /\ value[Len(value)] # " "
        THEN Fields(SpaceFields(value))
        ELSE bad

(***************************************************************************)
(* package net. A net.IP is its sequence of bytes, <<>> for nil; ParseIP   *)
(* returns the 16-byte form for both families. The IPv6 reader takes       *)
(* groups of one to four hex digits and one "::"; a dotted IPv4 tail and a *)
(* zone are not read.                                                      *)
(***************************************************************************)
IPv4len == 4

IPv6len == 16

v4InV6Prefix == <<0, 0, 0, 0, 0, 0, 0, 0, 0, 0, 255, 255>>

HexDigits ==
    Digits \cup {"a", "b", "c", "d", "e", "f", "A", "B", "C", "D", "E", "F"}

HexVal ==
    [c \in HexDigits |->
        IF c \in Digits THEN DigitVal[c]
        ELSE CASE c \in {"a", "A"} -> 10 [] c \in {"b", "B"} -> 11
               [] c \in {"c", "C"} -> 12 [] c \in {"d", "D"} -> 13
               [] c \in {"e", "E"} -> 14 [] c \in {"f", "F"} -> 15]

RECURSIVE HexGroupVal(_)
HexGroupVal(s) ==
    IF s = <<>> THEN 0
    ELSE 16 * HexGroupVal(SubSeq(s, 1, Len(s) - 1)) + HexVal[s[Len(s)]]

IsHexGroup(s) == Len(s) \in 1..4 /\ \A i \in 1..Len(s) : s[i] \in HexDigits

\* a decimal byte: digits only, at most 255, no leading zero
IsDecByte(s) ==
    /\ s # <<>> /\ Len(s) <= 3 /\ AllDigits(s)
    /\ (Len(s) > 1 => s[1] # "0")
    /\ DecVal(s) <= 255

parseIPv4(s) ==
    LET Bytes(f) ==
            IF Len(f) = 4 /\ \A i \in 1..4 : IsDecByte(f[i])
            THEN v4InV6Prefix \o [i \in 1..4 |-> DecVal(f[i])]
            ELSE <<>>
    IN  Bytes(Split(s, "."))

\* the two bytes of each 16-bit group, in order
RECURSIVE GroupBytes(_)
GroupBytes(g) ==
    IF g = <<>> THEN <<>>
    ELSE <<g[1] \div 256, g[1] % 256>> \o GroupBytes(SubSeq(g, 2, Len(g)))

\* 1-based index of the first "::" in s, 0 when there is none
IndexEllipsis(s) ==
    IF \E i \in 1..(Len(s) - 1) : s[i] = ":" /\ s[i + 1] = ":"
    THEN CHOOSE i \in 1..(Len(s) - 1) :
            /\ s[i] = ":" /\ s[i + 1] = ":"
            /\ \A j \in 1..(i - 1) : ~(s[j] = ":" /\ s[j + 1] = ":")
    ELSE 0

parseIPv6(s) ==
    LET Groups(x) == IF x = <<>> THEN <<>> ELSE Split(x, ":")
        \* the groups left and right of the "::", or all eight when there is none
        Join(l, r, elided) ==
            IF /\ \A i \in 1..Len(l) : IsHexGroup(l[i])
               /\ \A i \in 1..Len(r) : IsHexGroup(r[i])
               /\ IF elided THEN Len(l) + Len(r) <= 7 ELSE Len(l) + Len(r) = 8
            THEN GroupBytes([i \in 1..Len(l) |-> HexGroupVal(l[i])]
                            \o [i \in 1..(8 - Len(l) - Len(r)) |-> 0]
                            \o [i \in 1..Len(r) |-> HexGroupVal(r[i])])
            ELSE <<>>
        At(e) ==
            IF e = 0 THEN Join(Split(s, ":"), <<>>, FALSE)
            ELSE Join(Groups(SubSeq(s, 1, e - 1)), Groups(SubSeq(s, e + 2, Len(s))), TRUE)
    IN  At(IndexEllipsis(s))

\* net.ParseIP: the first '.' or ':' of the text chooses the family
ParseIP(s) ==
    LET First(d, c) ==
            IF d = 0 /\ c = 0 THEN <<>>
            ELSE IF c = 0 \/ (d # 0 /\ d < c) THEN parseIPv4(s)
            ELSE parseIPv6(s)
    IN  First(IndexByte(s, "."), IndexByte(s, ":"))

\* IP.To4() # nil: a 4-byte address, or a 16-byte one under the v4-in-v6 prefix
To4NotNil(ip) ==
    \/ Len(ip) = IPv4len
    \/ Len(ip) = IPv6len /\ SubSeq(ip, 1, 12) = v4InV6Prefix

\* net.CIDRMask(ones, bits): bits/8 bytes with the first ones bits set
CIDRMask(ones, bits) ==
    [i \in 1..(bits \div 8) |->
        LET n == ones - 8 * (i - 1)
        IN  IF n >= 8 THEN 255
            ELSE IF n <= 0 THEN 0
            ELSE 256 - 2 ^ (8 - n)]

\* net.ParseCIDR: the address and, of the network, its mask
ParseCIDR(s) ==
    LET bad == [err |-> "invalid CIDR address", ip |-> <<>>, mask |-> <<>>]
        Net(ip, iplen, mask) ==
            IF /\ ip # <<>>
               /\ mask # <<>> /\ AllDigits(mask) /\ Len(mask) <= MaxDigits
               /\ DecVal(mask) <= 8 * iplen
            THEN [err |-> "nil", ip |-> ip, mask |-> CIDRMask(DecVal(mask), 8 * iplen)]
            ELSE bad
        Family(addr, mask, ip4) ==
            IF ip4 # <<>> THEN Net(ip4, IPv4len, mask)
            ELSE Net(parseIPv6(addr), IPv6len, mask)
        Parts(addr, mask) == Family(addr, mask, parseIPv4(addr))
        At(i) ==
            IF i = 0 THEN bad
            ELSE Parts(SubSeq(s, 1, i - 1), SubSeq(s, i + 1, Len(s)))
    IN  At(IndexByte(s, "/"))

\* net.SplitHostPort
SplitHostPort(hostport) ==
    LET bad(e) == [err |-> e, host |-> <<>>, port |-> <<>>]
        Bracketed(i, end) ==
            IF end = 0 THEN bad("missing ']' in address")
            ELSE IF end = Len(hostport) THEN bad("missing port in address")
            ELSE IF end + 1 # i
            THEN (IF hostport[end + 1] = ":"
                  THEN bad("too many colons in address")
                  ELSE bad("missing port in address"))
            ELSE IF IndexByte(SubSeq(hostport, 2, Len(hostport)), "[") # 0
            THEN bad("unexpected '[' in address")
            ELSE IF IndexByte(SubSeq(hostport, end + 1, Len(hostport)), "]") # 0
            THEN bad("unexpected ']' in address")
            ELSE [err |-> "nil", host |-> SubSeq(hostport, 2, end - 1),
                  port |-> SubSeq(hostport, i + 1, Len(hostport))]
        Plain(i, host) ==
            IF IndexByte(host, ":") # 0 THEN bad("too many colons in address")
            ELSE IF IndexByte(hostport, "[") # 0 THEN bad("unexpected '[' in address")
            ELSE IF IndexByte(hostport, "]") # 0 THEN bad("unexpected ']' in address")
            ELSE [err |-> "nil", host |-> host,
                  port |-> SubSeq(hostport, i + 1, Len(hostport))]
        At(i) ==
            IF i = 0 THEN bad("missing port in address")
            ELSE IF hostport[1] = "[" THEN Bracketed(i, IndexByte(hostport, "]"))
            ELSE Plain(i, SubSeq(hostport, 1, i - 1))
    IN  At(LastIndexByte(hostport, ":"))

(***************************************************************************)
(* status.go: the types                                                    *)
(***************************************************************************)
stateUnknown == 0

stateClients == 1

stateRoutes == 2

stateStats == 3

stateEnd == 4

\* Addr{}, RouteAddr{}, Client{}, Route{} and Status{}: the zero values
ZeroAddr == [IP |-> <<>>, Port |-> 0]

ZeroRouteAddr == [IP |-> <<>>, Mask |-> <<>>, Remote |-> FALSE]

ZeroClient ==
    [CommonName |-> <<>>, RealAddress |-> ZeroAddr, BytesReceived |-> 0,
     BytesSent |-> 0, Since |-> ZeroTime]

ZeroRoute ==
    [VirtualAddress |-> ZeroRouteAddr, CommonName |-> <<>>,
     RealAddress |-> ZeroAddr, LastRef |-> ZeroTime]

ZeroStatus ==
    [Updated |-> ZeroTime, Clients |-> <<>>, Routes |-> <<>>, MaxQueue |-> 0,
     state |-> stateUnknown]

\* the fields of Client and of Route in declaration order, as reflection
\* walks them: name, kind and whether the field can be set
\* a faulty variant of ClientFields: the two byte counters declared the other
\* way round
ClientFieldsCountersSwapped ==
    << [name |-> "CommonName",    kind |-> "string", canSet |-> TRUE],
       [name |-> "RealAddress",   kind |-> "Addr",   canSet |-> TRUE],
       [name |-> "BytesSent",     kind |-> "uint64", canSet |-> TRUE],
       [name |-> "BytesReceived", kind |-> "uint64", canSet |-> TRUE],
       [name |-> "Since",         kind |-> "time",   canSet |-> TRUE] >>

ClientFields ==
    << [name |-> "CommonName",    kind |-> "string", canSet |-> TRUE],
       [name |-> "RealAddress",   kind |-> "Addr",   canSet |-> TRUE],
       [name |-> "BytesReceived", kind |-> "uint64", canSet |-> TRUE],
       [name |-> "BytesSent",     kind |-> "uint64", canSet |-> TRUE],
       [name |-> "Since",         kind |-> "time",   canSet |-> TRUE] >>

RouteFields ==
    << [name |-> "VirtualAddress", kind |-> "RouteAddr", canSet |-> TRUE],
       [name |-> "CommonName",     kind |-> "string",    canSet |-> TRUE],
       [name |-> "RealAddress",    kind |-> "Addr",      canSet |-> TRUE],
       [name |-> "LastRef",        kind |-> "time",      canSet |-> TRUE] >>

\* EOF, the error parseLine returns at the terminal marker
EOF == "EOF reached"

\* a run-time panic of an index or slice out of range, which no caller recovers
PanicIndex == "panic: runtime error: index out of range"

(***************************************************************************)
(* status.go: the text the parser looks for                                *)
(***************************************************************************)
TxtEND == <<"E","N","D">>

TxtClientList == <<"C","L","I","E","N","T"," ","L","I","S","T">>

TxtRoutingTable == <<"R","O","U","T","I","N","G"," ","T","A","B","L","E">>

TxtGlobalStats == <<"G","L","O","B","A","L"," ","S","T","A","T","S">>

TxtUpdatedComma == <<"U","p","d","a","t","e","d",",">>

TxtUpdated == <<"U","p","d","a","t","e","d">>

TxtCommonName == <<"C","o","m","m","o","n"," ","N","a","m","e">>

TxtVirtualAddress == <<"V","i","r","t","u","a","l"," ","A","d","d","r","e","s","s">>

TxtQueueLength == <<"q","u","e","u","e"," ","l","e","n","g","t","h">>

TxtC == <<"C">>

(***************************************************************************)
(* status.go: the field parsers                                            *)
(***************************************************************************)
parseTime(text) == TimeParse(text)

parseAddr(text) ==
    LET WithPort(ip, port) ==
            IF port.err # "nil"
            THEN [err |-> port.err, v |-> [IP |-> ip, Port |-> port.v]]
            ELSE [err |-> "nil", v |-> [IP |-> ip, Port |-> port.v]]
        WithIP(ip, port) ==
            IF ip = <<>>
            THEN [err |-> "Invalid IP encountered", v |-> [IP |-> <<>>, Port |-> 0]]
            ELSE WithPort(ip, Atoi(port))
        WithHostPort(hp) ==
            IF hp.err # "nil" THEN [err |-> hp.err, v |-> ZeroAddr]
            ELSE WithIP(ParseIP(hp.host), hp.port)
    IN  WithHostPort(SplitHostPort(text))

\* a faulty variant of DefaultMask: the IPv4 mask whatever the family
DefaultMaskAlwaysV4(ip) == CIDRMask(32, 8 * IPv4len)

\* the mask of a bare IP: 32 bits, or 128 when r.IP.To4() is nil
DefaultMask(ip) ==
    IF To4NotNil(ip) THEN CIDRMask(32, 8 * IPv4len) ELSE CIDRMask(128, 8 * IPv6len)

parseRouteAddr(text) ==
    LET Bare(remote, ip, err) ==
            IF ip = <<>>
            THEN [err |-> err, v |-> [IP |-> <<>>, Mask |-> <<>>, Remote |-> remote]]
            ELSE [err |-> "nil",
                  v |-> [IP |-> ip, Mask |-> DefaultMask(ip), Remote |-> remote]]
        Net(remote, rest, cidr) ==
            IF cidr.err = "nil"
            THEN [err |-> "nil",
                  v |-> [IP |-> cidr.ip, Mask |-> cidr.mask, Remote |-> remote]]
            ELSE Bare(remote, ParseIP(rest), cidr.err)
        Address(remote, rest) == Net(remote, rest, ParseCIDR(rest))
    IN  IF HasSuffix(text, TxtC)
        THEN Address(TRUE, TrimSuffix(text, TxtC))
        ELSE Address(FALSE, text)

\* the typed parse of one field: the switch on f.Kind() and f.Type()
parseField(kind, part) ==
    LET IPOrError(ip) ==
            [err |-> IF ip = <<>> THEN "Invalid IP encountered" ELSE "nil", v |-> ip]
    IN  CASE kind = "uint64"    -> ParseUint(part)
          [] kind = "int64"     -> Atoi(part)
          [] kind = "string"    -> [err |-> "nil", v |-> part]
          [] kind = "time"      -> parseTime(part)
          [] kind = "Addr"      -> parseAddr(part)
          [] kind = "IP"        -> IPOrError(ParseIP(part))
          [] kind = "RouteAddr" -> parseRouteAddr(part)
          [] OTHER              -> [err |-> "Unknown type encountered in struct",
                                    v |-> <<>>]

\* the loop of parseStructParts from field i on: v is [fields, val]
RECURSIVE fillFrom(_, _, _)
fillFrom(v, parts, i) ==
    LET Set(p) ==
            IF p.err # "nil" THEN [err |-> p.err, v |-> v]
            ELSE fillFrom([v EXCEPT !.val[v.fields[i].name] = p.v], parts, i + 1)
    IN  IF ~(i <= Len(v.fields) /\ i <= Len(parts)) THEN [err |-> "nil", v |-> v]
        ELSE IF ~v.fields[i].canSet THEN fillFrom(v, parts, i + 1)
        ELSE Set(parseField(v.fields[i].kind, parts[i]))

\* a faulty variant of parseStructParts: as many parts as fields are asked for
parseStructPartsSameLength(v, parts) ==
    IF Len(parts) # Len(v.fields)
    THEN [err |-> "wrong number of fields", v |-> v]
    ELSE fillFrom(v, parts, 1)

parseStructParts(v, parts) == fillFrom(v, parts, 1)

(***************************************************************************)
(* status.go: the parse functions of the sections. Each takes the Status   *)
(* and the line and gives the Status it leaves and its error.              *)
(***************************************************************************)
parseNothing(s, text) == [s |-> s, err |-> "nil"]

\* a faulty variant of parseUpdated: the section is reset with the timestamp
parseUpdatedResetsSection(s, text) ==
    LET Set(p) ==
            IF p.err = "nil"
            THEN [s |-> [s EXCEPT !.Updated = p.v, !.state = stateUnknown],
                  err |-> "nil"]
            ELSE [s |-> s, err |-> p.err]
    IN  IF Len(text) < 7 THEN [s |-> s, err |-> PanicIndex]
        ELSE IF SubSeq(text, 1, 7) = TxtUpdated
        THEN IF Len(text) < 8 THEN [s |-> s, err |-> PanicIndex]
             ELSE Set(parseTime(SubSeq(text, 9, Len(text))))
        ELSE [s |-> s, err |-> "nil"]

\* a faulty variant of parseUpdated: the time is stored before the error is
\* looked at
parseUpdatedStoresOnError(s, text) ==
    LET Set(p) ==
            IF p.err = "nil"
            THEN [s |-> [s EXCEPT !.Updated = p.v], err |-> "nil"]
            ELSE [s |-> [s EXCEPT !.Updated = p.v], err |-> p.err]
    IN  IF Len(text) < 7 THEN [s |-> s, err |-> PanicIndex]
        ELSE IF SubSeq(text, 1, 7) = TxtUpdated
        THEN IF Len(text) < 8 THEN [s |-> s, err |-> PanicIndex]
             ELSE Set(parseTime(SubSeq(text, 9, Len(text))))
        ELSE [s |-> s, err |-> "nil"]

parseUpdated(s, text) ==
    LET Set(p) ==
            IF p.err = "nil"
            THEN [s |-> [s EXCEPT !.Updated = p.v], err |-> "nil"]
            ELSE [s |-> s, err |-> p.err]
    IN  IF Len(text) < 7 THEN [s |-> s, err |-> PanicIndex]
        ELSE IF SubSeq(text, 1, 7) = TxtUpdated
        THEN IF Len(text) < 8 THEN [s |-> s, err |-> PanicIndex]
             ELSE Set(parseTime(SubSeq(text, 9, Len(text))))
        ELSE [s |-> s, err |-> "nil"]

\* a faulty variant of IsClientColumns: the label of the other section
IsClientColumnsOtherLabel(parts) == parts[1] = TxtVirtualAddress

\* a faulty variant of AppendClient: the slice is started anew
AppendClientAnew(st, c) == [st EXCEPT !.Clients = <<c>>]

\* s.Clients = append(s.Clients, c) and s.Routes = append(s.Routes, c)
AppendClient(st, c) == [st EXCEPT !.Clients = Append(@, c)]

\* a faulty variant of AppendRoute: the route is put in front
AppendRouteInFront(st, c) == [st EXCEPT !.Routes = <<c>> \o @]

AppendRoute(st, c) == [st EXCEPT !.Routes = Append(@, c)]

\* the column header line of the section, told by its first field
IsClientColumns(parts) == parts[1] = TxtCommonName

IsRouteColumns(parts) == parts[1] = TxtVirtualAddress

parseClient(s, text) ==
    LET Row(parts, r) ==
            IF r.err # "nil"
            THEN IF IsClientColumns(parts)
                 THEN [s |-> s, err |-> "nil"]
                 ELSE [s |-> s, err |-> r.err]
            ELSE [s |-> AppendClient(s, r.v.val), err |-> "nil"]
        Parts(parts) ==
            Row(parts,
                parseStructParts([fields |-> ClientFields, val |-> ZeroClient], parts))
    IN  Parts(Split(text, ","))

parseRoute(s, text) ==
    LET Row(parts, r) ==
            IF r.err # "nil"
            THEN IF IsRouteColumns(parts)
                 THEN [s |-> s, err |-> "nil"]
                 ELSE [s |-> s, err |-> r.err]
            ELSE [s |-> AppendRoute(s, r.v.val), err |-> "nil"]
        Parts(parts) ==
            Row(parts,
                parseStructParts([fields |-> RouteFields, val |-> ZeroRoute], parts))
    IN  Parts(Split(text, ","))

\* a faulty variant of parseStat: the value of any row is stored
parseStatAnyRow(s, text) ==
    LET Set(p) ==
            IF p.err # "nil" THEN [s |-> s, err |-> p.err]
            ELSE [s |-> [s EXCEPT !.MaxQueue = p.v], err |-> "nil"]
        Parts(parts) ==
            IF Len(parts) < 2 THEN [s |-> s, err |-> PanicIndex]
            ELSE Set(ParseUint(parts[2]))
    IN  Parts(Split(text, ","))

parseStat(s, text) ==
    LET Set(p) ==
            IF p.err # "nil" THEN [s |-> s, err |-> p.err]
            ELSE [s |-> [s EXCEPT !.MaxQueue = p.v], err |-> "nil"]
        Parts(parts) ==
            IF Contains(parts[1], TxtQueueLength)
            THEN IF Len(parts) < 2 THEN [s |-> s, err |-> PanicIndex]
                 ELSE Set(ParseUint(parts[2]))
            ELSE [s |-> s, err |-> "nil"]
    IN  Parts(Split(text, ","))

\* fn(s, t), for the parse function parseLine returned
Call(fn, s, text) ==
    CASE fn = "parseNothing" -> parseNothing(s, text)
      [] fn = "parseUpdated" -> parseUpdated(s, text)
      [] fn = "parseClient"  -> parseClient(s, text)
      [] fn = "parseRoute"   -> parseRoute(s, text)
      [] fn = "parseStat"    -> parseStat(s, text)

\* a faulty variant of IsTerminalMarker: the empty line is no marker
IsTerminalMarkerENDOnly(text) == text = TxtEND

\* a faulty variant of UnexpectedText: the stray line is passed over
UnexpectedTextPassedOver == "nil"

\* the terminal marker: the line END, or an empty line
IsTerminalMarker(text) == text = TxtEND \/ text = <<>>

\* the error of a data line met before any section header
UnexpectedText == "Unexpected text encountered"

\* a faulty variant of parseLine: GLOBAL STATS is looked for before ROUTING TABLE
parseLineStatsFirst(s, text) ==
    IF IsTerminalMarker(text)
    THEN [s |-> [s EXCEPT !.state = stateEnd], fn |-> "parseNothing", err |-> EOF]
    ELSE IF Contains(text, TxtClientList)
    THEN [s |-> [s EXCEPT !.state = stateClients], fn |-> "parseNothing", err |-> "nil"]
    ELSE IF Contains(text, TxtGlobalStats)
    THEN [s |-> [s EXCEPT !.state = stateStats], fn |-> "parseNothing", err |-> "nil"]
    ELSE IF Contains(text, TxtRoutingTable)
    THEN [s |-> [s EXCEPT !.state = stateRoutes], fn |-> "parseNothing", err |-> "nil"]
    ELSE IF HasPrefix(text, TxtUpdatedComma)
    THEN [s |-> s, fn |-> "parseUpdated", err |-> "nil"]
    ELSE CASE s.state = stateClients -> [s |-> s, fn |-> "parseClient", err |-> "nil"]
           [] s.state = stateRoutes  -> [s |-> s, fn |-> "parseRoute", err |-> "nil"]
           [] s.state = stateStats   -> [s |-> s, fn |-> "parseStat", err |-> "nil"]
           [] s.state = stateEnd     -> [s |-> s, fn |-> "parseNothing", err |-> "nil"]
           [] s.state = stateUnknown ->
                [s |-> s, fn |-> "parseNothing", err |-> UnexpectedText]

\* parseLine: the Status with the section it leaves, the parse function, the error
parseLine(s, text) ==
    IF IsTerminalMarker(text)
    THEN [s |-> [s EXCEPT !.state = stateEnd], fn |-> "parseNothing", err |-> EOF]
    ELSE IF Contains(text, TxtClientList)
    THEN [s |-> [s EXCEPT !.state = stateClients], fn |-> "parseNothing", err |-> "nil"]
    ELSE IF Contains(text, TxtRoutingTable)
    THEN [s |-> [s EXCEPT !.state = stateRoutes], fn |-> "parseNothing", err |-> "nil"]
    ELSE IF Contains(text, TxtGlobalStats)
    THEN [s |-> [s EXCEPT !.state = stateStats], fn |-> "parseNothing", err |-> "nil"]
    ELSE IF HasPrefix(text, TxtUpdatedComma)
    THEN [s |-> s, fn |-> "parseUpdated", err |-> "nil"]
    ELSE CASE s.state = stateClients -> [s |-> s, fn |-> "parseClient", err |-> "nil"]
           [] s.state = stateRoutes  -> [s |-> s, fn |-> "parseRoute", err |-> "nil"]
           [] s.state = stateStats   -> [s |-> s, fn |-> "parseStat", err |-> "nil"]
           [] s.state = stateEnd     -> [s |-> s, fn |-> "parseNothing", err |-> "nil"]
           [] s.state = stateUnknown ->
                [s |-> s, fn |-> "parseNothing", err |-> UnexpectedText]

\* the body of Parse's loop for one line: parseLine, then fn when it gave no error
LoopBody(s, text) ==
    LET Then(pl) ==
            IF pl.err = "nil" THEN Call(pl.fn, pl.s, text)
            ELSE [s |-> pl.s, err |-> pl.err]
    IN  Then(parseLine(s, text))

(***************************************************************************)
(* The lines a stream is made of: those of the status file of              *)
(* status_test.go, and malformed and misplaced ones.                       *)
(***************************************************************************)
\* the empty line
LnEmpty ==
    <<>>

\* "END"
LnEND ==
    <<"E","N","D">>

\* "OpenVPN CLIENT LIST"
LnClientList ==
    <<"O","p","e","n","V","P","N"," ","C","L","I","E","N","T"," ","L","I",
      "S","T">>

\* "ROUTING TABLE"
LnRoutingTable ==
    <<"R","O","U","T","I","N","G"," ","T","A","B","L","E">>

\* "GLOBAL STATS"
LnGlobalStats ==
    <<"G","L","O","B","A","L"," ","S","T","A","T","S">>

\* "Updated,Thu Nov  5 15:34:43 2015"
LnUpdated ==
    <<"U","p","d","a","t","e","d",",","T","h","u"," ","N","o","v"," "," ",
      "5"," ","1","5",":","3","4",":","4","3"," ","2","0","1","5">>

\* "Updated,yesterday"
LnUpdatedBad ==
    <<"U","p","d","a","t","e","d",",","y","e","s","t","e","r","d","a","y">>

\* "Common Name,Real Address,Bytes Received,Bytes Sent,Connected Since"
LnClientCols ==
    <<"C","o","m","m","o","n"," ","N","a","m","e",",","R","e","a","l"," ",
      "A","d","d","r","e","s","s",",","B","y","t","e","s"," ","R","e","c",
      "e","i","v","e","d",",","B","y","t","e","s"," ","S","e","n","t",",",
      "C","o","n","n","e","c","t","e","d"," ","S","i","n","c","e">>

\* "test1,6.6.6.6:1000,100,98,Thu Nov  5 15:34:43 2015"
LnClient ==
    <<"t","e","s","t","1",",","6",".","6",".","6",".","6",":","1","0","0",
      "0",",","1","0","0",",","9","8",",","T","h","u"," ","N","o","v"," ",
      " ","5"," ","1","5",":","3","4",":","4","3"," ","2","0","1","5">>

\* "test1,6.6.6.6:1000,100,9x,Thu Nov  5 15:34:43 2015"
LnClientBadInt ==
    <<"t","e","s","t","1",",","6",".","6",".","6",".","6",":","1","0","0",
      "0",",","1","0","0",",","9","x",",","T","h","u"," ","N","o","v"," ",
      " ","5"," ","1","5",":","3","4",":","4","3"," ","2","0","1","5">>

\* "test1,6.6.6.6,100,98,Thu Nov  5 15:34:43 2015"
LnClientBadAddr ==
    <<"t","e","s","t","1",",","6",".","6",".","6",".","6",",","1","0","0",
      ",","9","8",",","T","h","u"," ","N","o","v"," "," ","5"," ","1","5",
      ":","3","4",":","4","3"," ","2","0","1","5">>

\* "test1,6.6.6.6:1000,100,98,Nov 5 2015"
LnClientBadTime ==
    <<"t","e","s","t","1",",","6",".","6",".","6",".","6",":","1","0","0",
      "0",",","1","0","0",",","9","8",",","N","o","v"," ","5"," ","2","0",
      "1","5">>

\* "Common Name,6.6.6.6:1000,100,9x,Thu Nov  5 15:34:43 2015"
LnClientColsBadInt ==
    <<"C","o","m","m","o","n"," ","N","a","m","e",",","6",".","6",".","6",
      ".","6",":","1","0","0","0",",","1","0","0",",","9","x",",","T","h",
      "u"," ","N","o","v"," "," ","5"," ","1","5",":","3","4",":","4","3",
      " ","2","0","1","5">>

\* "Virtual Address,Common Name,Real Address,Last Ref"
LnRouteCols ==
    <<"V","i","r","t","u","a","l"," ","A","d","d","r","e","s","s",",","C",
      "o","m","m","o","n"," ","N","a","m","e",",","R","e","a","l"," ","A",
      "d","d","r","e","s","s",",","L","a","s","t"," ","R","e","f">>

\* "10.0.0.1,test1,6.6.6.6:1000,Thu Nov  5 15:34:43 2015"
LnRoute1 ==
    <<"1","0",".","0",".","0",".","1",",","t","e","s","t","1",",","6",".",
      "6",".","6",".","6",":","1","0","0","0",",","T","h","u"," ","N","o",
      "v"," "," ","5"," ","1","5",":","3","4",":","4","3"," ","2","0","1",
      "5">>

\* "10.1.0.1C,test1,6.6.6.6:1000,Thu Nov  5 15:34:43 2015"
LnRoute2 ==
    <<"1","0",".","1",".","0",".","1","C",",","t","e","s","t","1",",","6",
      ".","6",".","6",".","6",":","1","0","0","0",",","T","h","u"," ","N",
      "o","v"," "," ","5"," ","1","5",":","3","4",":","4","3"," ","2","0",
      "1","5">>

\* "10.3.0.1/16,test1,6.6.6.6:1000,Thu Nov  5 15:34:43 2015"
LnRoute3 ==
    <<"1","0",".","3",".","0",".","1","/","1","6",",","t","e","s","t","1",
      ",","6",".","6",".","6",".","6",":","1","0","0","0",",","T","h","u",
      " ","N","o","v"," "," ","5"," ","1","5",":","3","4",":","4","3"," ",
      "2","0","1","5">>

\* "10.0.0.256,test1,6.6.6.6:1000,Thu Nov  5 15:34:43 2015"
LnRouteBadAddr ==
    <<"1","0",".","0",".","0",".","2","5","6",",","t","e","s","t","1",",",
      "6",".","6",".","6",".","6",":","1","0","0","0",",","T","h","u"," ",
      "N","o","v"," "," ","5"," ","1","5",":","3","4",":","4","3"," ","2",
      "0","1","5">>

\* "Max bcast / mcast queue length,39"
LnStatQueue ==
    <<"M","a","x"," ","b","c","a","s","t"," ","/"," ","m","c","a","s","t",
      " ","q","u","e","u","e"," ","l","e","n","g","t","h",",","3","9">>

\* "Max unicast,5"
LnStatOther ==
    <<"M","a","x"," ","u","n","i","c","a","s","t",",","5">>

\* "test2"
LnName ==
    <<"t","e","s","t","2">>

\* "Max queue length"
LnStatNoValue ==
    <<"M","a","x"," ","q","u","e","u","e"," ","l","e","n","g","t","h">>

\* "GLOBAL STATS ROUTING TABLE"
LnStatsRoutes ==
    <<"G","L","O","B","A","L"," ","S","T","A","T","S"," ","R","O","U","T",
      "I","N","G"," ","T","A","B","L","E">>

\* "CLIENT LIST,6.6.6.6:1000,100,98,Thu Nov  5 15:34:43 2015"
LnClientNamedList ==
    <<"C","L","I","E","N","T"," ","L","I","S","T",",","6",".","6",".","6",
      ".","6",":","1","0","0","0",",","1","0","0",",","9","8",",","T","h",
      "u"," ","N","o","v"," "," ","5"," ","1","5",":","3","4",":","4","3",
      " ","2","0","1","5">>

\* "Updated,GLOBAL STATS"
LnUpdatedStats ==
    <<"U","p","d","a","t","e","d",",","G","L","O","B","A","L"," ","S","T",
      "A","T","S">>

\* "Updated,Fri Nov  6 09:00:01 2015"
LnUpdated2 ==
    <<"U","p","d","a","t","e","d",",","F","r","i"," ","N","o","v"," "," ",
      "6"," ","0","9",":","0","0",":","0","1"," ","2","0","1","5">>

\* "Updated,"
LnUpdatedEmpty ==
    <<"U","p","d","a","t","e","d",",">>

\* "Max queue length,3x"
LnStatBadValue ==
    <<"M","a","x"," ","q","u","e","u","e"," ","l","e","n","g","t","h",",",
      "3","x">>

Corpus ==
    { LnEmpty, LnEND, LnClientList, LnRoutingTable, LnGlobalStats, LnUpdated,
      LnUpdatedBad, LnClientCols, LnClient, LnClientBadInt, LnClientBadAddr,
      LnClientBadTime, LnClientColsBadInt, LnRouteCols, LnRoute1, LnRoute2,
      LnRoute3, LnRouteBadAddr, LnStatQueue, LnStatOther, LnName, LnStatNoValue,
      LnStatsRoutes, LnClientNamedList, LnUpdatedStats, LnUpdated2,
      LnUpdatedEmpty, LnStatBadValue }

\* the most lines Parse scans in one run
MaxLines == 5

(***************************************************************************)
(* What each line of the corpus is, read off the status-file format and    *)
(* the values status_test.go expects. None of this is computed by the      *)
(* parser: the properties below compare the parser with it.                *)
(***************************************************************************)
TerminalLns == {LnEmpty, LnEND}

HeaderLns ==
    { LnClientList, LnRoutingTable, LnGlobalStats, LnStatsRoutes,
      LnClientNamedList, LnUpdatedStats }

UpdatedLns == {LnUpdated, LnUpdated2, LnUpdatedBad, LnUpdatedEmpty}

\* rows of fields: whatever is no terminal marker, section header or Updated line
RowLns == Corpus \ (TerminalLns \cup HeaderLns \cup UpdatedLns)

\* rows whose first field is the column label of the Clients, of the Routes section
ClientColumnLns == {LnClientCols, LnClientColsBadInt}

RouteColumnLns == {LnRouteCols}

\* the section a header line names
HeaderSection(ln) ==
    CASE ln \in {LnClientList, LnClientNamedList} -> stateClients
      [] ln \in {LnRoutingTable, LnStatsRoutes}   -> stateRoutes
      [] ln \in {LnGlobalStats, LnUpdatedStats}   -> stateStats

\* Thu Nov  5 15:34:43 2015
ExpectedTime ==
    [year |-> 2015, month |-> 11, day |-> 5, hour |-> 15, min |-> 34, sec |-> 43]

\* the timestamp of a good Updated line
ExpectedUpdated(ln) ==
    CASE ln = LnUpdated  -> ExpectedTime
      [] ln = LnUpdated2 ->
            [year |-> 2015, month |-> 11, day |-> 6, hour |-> 9, min |-> 0, sec |-> 1]

\* Addr{net.ParseIP("6.6.6.6"), 1000}
ExpectedRemote ==
    [IP |-> <<0, 0, 0, 0, 0, 0, 0, 0, 0, 0, 255, 255, 6, 6, 6, 6>>, Port |-> 1000]

ExpectedClient(ln) ==
    CASE ln = LnClient ->
            [CommonName |-> <<"t","e","s","t","1">>, RealAddress |-> ExpectedRemote,
             BytesReceived |-> 100, BytesSent |-> 98, Since |-> ExpectedTime]
      [] ln \in {LnName, LnStatNoValue} ->
            [CommonName |-> ln,
             RealAddress |-> [IP |-> <<>>, Port |-> 0],
             BytesReceived |-> 0, BytesSent |-> 0,
             Since |-> [year |-> 1, month |-> 1, day |-> 1,
                        hour |-> 0, min |-> 0, sec |-> 0]]

ExpectedVirtualAddress(ln) ==
    CASE ln = LnRoute1 ->
            [IP |-> <<0, 0, 0, 0, 0, 0, 0, 0, 0, 0, 255, 255, 10, 0, 0, 1>>,
             Mask |-> <<255, 255, 255, 255>>, Remote |-> FALSE]
      [] ln = LnRoute2 ->
            [IP |-> <<0, 0, 0, 0, 0, 0, 0, 0, 0, 0, 255, 255, 10, 1, 0, 1>>,
             Mask |-> <<255, 255, 255, 255>>, Remote |-> TRUE]
      [] ln = LnRoute3 ->
            [IP |-> <<0, 0, 0, 0, 0, 0, 0, 0, 0, 0, 255, 255, 10, 3, 0, 1>>,
             Mask |-> <<255, 255, 0, 0>>, Remote |-> FALSE]

ExpectedRoute(ln) ==
    [VirtualAddress |-> ExpectedVirtualAddress(ln),
     CommonName |-> <<"t","e","s","t","1">>, RealAddress |-> ExpectedRemote,
     LastRef |-> ExpectedTime]

\* What a line is to do in section sec:
\*   "end"     the terminal marker      "hdr"  a section header
\*   "upd"     a good Updated line      "err"  a line that is to fail the parse
\*   "rec"     a row that is a record   "skip" a column header row
\*   "set"     the queue length         "ignore" another statistic
\*   "novalue" a queue length row without a value field
Outcome(sec, ln) ==
    CASE ln \in TerminalLns -> "end"
      [] ln \in HeaderLns -> "hdr"
      [] ln \in {LnUpdated, LnUpdated2} -> "upd"
      [] ln \in {LnUpdatedBad, LnUpdatedEmpty} -> "err"
      [] OTHER ->
         CASE sec = stateClients ->
                 IF ln \in {LnClient, LnName, LnStatNoValue} THEN "rec"
                 ELSE IF ln \in ClientColumnLns THEN "skip" ELSE "err"
           [] sec = stateRoutes ->
                 IF ln \in {LnRoute1, LnRoute2, LnRoute3} THEN "rec"
                 ELSE IF ln \in RouteColumnLns THEN "skip" ELSE "err"
           [] sec = stateStats ->
                 IF ln = LnStatQueue THEN "set"
                 ELSE IF ln = LnStatNoValue THEN "novalue"
                 ELSE IF ln = LnStatBadValue THEN "err" ELSE "ignore"
           [] OTHER -> "err"

\* the lines of the status-file format, by the section they may stand in
InFormat(sec, ln) ==
    \/ ln \in TerminalLns
    \/ ln \in {LnClientList, LnRoutingTable, LnGlobalStats}
    \/ ln \in {LnUpdated, LnUpdated2}
    \/ sec = stateClients /\ ln \in {LnClientCols, LnClient}
    \/ sec = stateRoutes /\ ln \in {LnRouteCols, LnRoute1, LnRoute2, LnRoute3}
    \/ sec = stateStats /\ ln = LnStatQueue

\* the snapshot: the Status without the parser's section state
Snapshot(st) ==
    [Updated |-> st.Updated, Clients |-> st.Clients, Routes |-> st.Routes,
     MaxQueue |-> st.MaxQueue]

\* The record of the lines delivered so far:
\*   n        how many             sec      the section of the last header
\*   endAt    the number of the first terminal marker, 0 for none
\*   failAt   the number of the first line that is to fail, 0 for none
\*   inFormat whether every line stood in the status-file format
\*   updSeen  whether an Updated line came since the last header
\*   nClientRows, nRouteRows  the rows, column headers aside, met in each section
\*   nSkipped how many column header rows were met in their own section
\*   snap     the snapshot the lines are to give
\*   emptySeen  whether an empty line came
\*   badUpdSeen whether an Updated line with a malformed timestamp came
\*   straySeen  whether a row came before the first section header
ZeroSeen ==
    [n |-> 0, sec |-> 0, endAt |-> 0, failAt |-> 0, inFormat |-> TRUE,
     emptySeen |-> FALSE, badUpdSeen |-> FALSE, straySeen |-> FALSE,
     updSeen |-> FALSE, nClientRows |-> 0, nRouteRows |-> 0, nSkipped |-> 0,
     snap |-> [Updated |-> [year |-> 1, month |-> 1, day |-> 1,
                            hour |-> 0, min |-> 0, sec |-> 0],
               Clients |-> <<>>, Routes |-> <<>>, MaxQueue |-> 0]]

SeenAfter(h, ln) ==
    LET o == Outcome(h.sec, ln)
        n == h.n + 1
    IN  [n        |-> n,
         sec      |-> IF o = "hdr" THEN HeaderSection(ln) ELSE h.sec,
         endAt    |-> IF o = "end" /\ h.endAt = 0 THEN n ELSE h.endAt,
         failAt   |-> IF o = "err" /\ h.failAt = 0 THEN n ELSE h.failAt,
         inFormat |-> h.inFormat /\ InFormat(h.sec, ln),
         updSeen  |-> IF o = "hdr" THEN FALSE
                      ELSE IF ln \in UpdatedLns THEN TRUE ELSE h.updSeen,
         nClientRows |-> IF h.sec = stateClients /\ ln \in RowLns \ ClientColumnLns
                         THEN h.nClientRows + 1 ELSE h.nClientRows,
         nRouteRows  |-> IF h.sec = stateRoutes /\ ln \in RowLns \ RouteColumnLns
                         THEN h.nRouteRows + 1 ELSE h.nRouteRows,
         nSkipped |-> IF o = "skip" THEN h.nSkipped + 1 ELSE h.nSkipped,
         emptySeen  |-> h.emptySeen \/ ln = LnEmpty,
         badUpdSeen |-> h.badUpdSeen \/ ln \in {LnUpdatedBad, LnUpdatedEmpty},
         straySeen  |-> h.straySeen \/ (h.sec = stateUnknown /\ ln \in RowLns),
         snap     |->
            CASE o = "upd" -> [h.snap EXCEPT !.Updated = ExpectedUpdated(ln)]
              [] o = "rec" /\ h.sec = stateClients ->
                    [h.snap EXCEPT !.Clients = Append(@, ExpectedClient(ln))]
              [] o = "rec" /\ h.sec = stateRoutes ->
                    [h.snap EXCEPT !.Routes = Append(@, ExpectedRoute(ln))]
              [] o = "set" -> [h.snap EXCEPT !.MaxQueue = 39]
              [] OTHER -> h.snap]

(***************************************************************************)
(* Parse                                                                   *)
(***************************************************************************)
VARIABLES
    s,        \* the Status Parse fills, state included
    scanner,  \* the scanner's sticky error: "nil", "EOF" or "read"
    line,     \* Parse's line counter
    t,        \* the text of the line last scanned
    pc,       \* "loop", "returned" or "panicked"
    ret,      \* what Parse returned: [status, err]
    prev,     \* history: the Status before the line last scanned
    seen,     \* history: the record of the lines delivered so far
    arg,      \* a parser on its own: <<a>>, what its text is built from
    out,      \* a parser on its own: <<r>>, what it returned
    file,     \* ParseFile: the handle, "none", "open" or "closed"
    first     \* the parseUnknown-based Parse reading the same lines

vars == <<s, scanner, line, t, pc, ret, prev, seen, arg, out, file, first>>

\* the error values Parse returns
NoError == [kind |-> "nil", line |-> 0, msg |-> "nil"]

LineError(n, e) == [kind |-> "line", line |-> n, msg |-> e]

ReadError == [kind |-> "read", line |-> 0, msg |-> "read error"]

\* a *Status is <<>> for nil and <<v>> for a pointer to v

\* faulty variants of ReturnLineError: the line counted from 0, and the
\* Status handed back with the error
ReturnLineErrorFromZero(st, n, e) == [status |-> <<>>, err |-> LineError(n - 1, e)]

ReturnLineErrorWithStatus(st, n, e) == [status |-> <<st>>, err |-> LineError(n, e)]

\* return nil, errors.New(fmt.Sprintf("Error on line %d: %s", line, err))
ReturnLineError(st, n, e) == [status |-> <<>>, err |-> LineError(n, e)]

\* a faulty variant of AfterLoop: io.EOF is taken for a read error
AfterLoopEOFIsError(st) ==
    IF scanner # "nil" THEN [status |-> <<>>, err |-> ReadError]
    ELSE [status |-> <<st>>, err |-> NoError]

\* after the loop: scanner.Err() is nil at a clean end of input
AfterLoop(st) ==
    IF scanner = "read" THEN [status |-> <<>>, err |-> ReadError]
    ELSE [status |-> <<st>>, err |-> NoError]

\* the parseUnknown-based Parse before its loop: s := &Status{}, cs and line 0
ZeroFirst ==
    [s    |-> [Updated |-> ZeroTime, Clients |-> <<>>, Routes |-> <<>>, MaxQueue |-> 0],
     cs   |-> stateUnknown,
     line |-> 0,
     pc   |-> "loop",
     ret  |-> [status |-> <<>>, err |-> NoError]]

Init ==
    /\ s = ZeroStatus
    /\ scanner = "nil"
    /\ line = 0
    /\ t = <<>>
    /\ pc = "loop"
    /\ ret = [status |-> <<>>, err |-> NoError]
    /\ prev = ZeroStatus
    /\ seen = ZeroSeen
    /\ arg = <<>>
    /\ out = <<>>
    /\ file = "none"
    /\ first = ZeroFirst

\* The reader hands the scanner its last bytes together with io.EOF or with a
\* read error: the scanner keeps the error and still delivers the lines it
\* holds.
ReadEnd(e) ==
    /\ pc = "loop"
    /\ scanner = "nil"
    /\ scanner' = e
    /\ UNCHANGED <<s, line, t, pc, ret, prev, seen, arg, out, file, first>>

\* scanner.Scan() delivers the line text: one turn of Parse's loop. What the
\* other formulation of Parse does with the line is left to the specification.
Scan(text) ==
    LET Turn(r) ==
            /\ line' = line + 1
            /\ t' = text
            /\ s' = r.s
            /\ IF r.err = "nil"
               THEN pc' = "loop" /\ ret' = ret
               ELSE IF r.err = PanicIndex
               THEN pc' = "panicked" /\ ret' = ret
               ELSE IF r.err = EOF
               THEN pc' = "returned" /\ ret' = AfterLoop(r.s)
               ELSE /\ pc' = "returned"
                    /\ ret' = ReturnLineError(r.s, line + 1, r.err)
    IN  /\ pc = "loop"
        /\ line < MaxLines
        /\ Turn(LoopBody(s, text))
        /\ prev' = s
        /\ seen' = SeenAfter(seen, text)
        /\ UNCHANGED <<scanner, arg, out, file>>

\* scanner.Scan() returns false: the input is at its end or the read failed
ScanStop ==
    /\ pc = "loop"
    /\ scanner # "nil"
    /\ pc' = "returned"
    /\ ret' = AfterLoop(s)
    /\ UNCHANGED <<s, scanner, line, t, prev, seen, arg, out, file, first>>

Next ==
    \/ \E e \in {"EOF", "read"} : ReadEnd(e)
    \/ \E text \in Corpus : Scan(text) /\ UNCHANGED first
    \/ ScanStop

Spec == Init /\ [][Next]_vars

(***************************************************************************)
(* Properties of Parse                                                     *)
(***************************************************************************)

\* C1, as stated: once a line that is empty or END has been delivered, in
\* whatever section, the parser is in End and Parse has returned successfully
\* with the snapshot built from the lines before it, and no later line was
\* scanned.
C1_TerminalAlwaysSucceeds ==
    seen.endAt > 0 =>
        /\ pc = "returned"
        /\ s.state = stateEnd
        /\ seen.n = seen.endAt
        /\ Snapshot(s) = Snapshot(prev)
        /\ Snapshot(s) = seen.snap
        /\ ret = [status |-> <<s>>, err |-> NoError]

\* C1, amended: once a line that is empty or END has been delivered, in
\* whatever section, the parser is in End, the snapshot is the one built from
\* the lines before it, no later line is scanned, and Parse has returned: the
\* snapshot without error, unless the scanner holds a read error of the
\* underlying reader, which Parse then returns without a snapshot.
C1_TerminalEndsParse ==
    seen.endAt > 0 =>
        /\ pc = "returned"
        /\ s.state = stateEnd
        /\ seen.n = seen.endAt
        /\ Snapshot(s) = Snapshot(prev)
        /\ Snapshot(s) = seen.snap
        /\ ret = IF scanner = "read" THEN [status |-> <<>>, err |-> ReadError]
                 ELSE [status |-> <<s>>, err |-> NoError]

\* an empty line ends the parse in the Routes section, a route already read
C1_Witness ==
    /\ seen.endAt > 1
    /\ t = LnEmpty
    /\ prev.state = stateRoutes
    /\ Len(s.Routes) > 0
    /\ ret = [status |-> <<s>>, err |-> NoError]

\* C2: a row delivered while the section is still Unknown fails the parse:
\* Parse returns no snapshot and the "unexpected text" error with the number
\* of that line.
C2_UnexpectedText ==
    (seen.n >= 1 /\ prev.state = stateUnknown /\ t \in RowLns) =>
        /\ pc = "returned"
        /\ ret = [status |-> <<>>,
                  err |-> [kind |-> "line", line |-> seen.n,
                           msg |-> "Unexpected text encountered"]]

\* a client row as the second line, after an Updated line and before any header
C2_Witness ==
    /\ seen.n = 2
    /\ prev.state = stateUnknown
    /\ prev.Updated = ExpectedTime
    /\ t = LnClient
    /\ pc = "returned"
    /\ ret.err.kind = "line"

\* C3: a row of the Clients or Routes section with a malformed integer,
\* address, route address or timestamp, its first field not the column label
\* of the section, fails the parse with the number of the line, and no record
\* is appended for it.
C3_MalformedFieldFails ==
    (/\ seen.n >= 1
     /\ prev.state \in {stateClients, stateRoutes}
     /\ t \in RowLns
     /\ Outcome(prev.state, t) = "err") =>
        /\ pc = "returned"
        /\ ret.status = <<>>
        /\ ret.err.kind = "line"
        /\ ret.err.line = seen.n
        /\ s.Clients = prev.Clients
        /\ s.Routes = prev.Routes

\* a client row with a malformed integer, after a good client row
C3_Witness ==
    /\ prev.state = stateClients
    /\ Len(prev.Clients) = 1
    /\ t = LnClientBadInt
    /\ pc = "returned"
    /\ ret.err.kind = "line"

\* C4: Parse returns a line error exactly when a line that is to fail has
\* been delivered; the number in the error is the number of the first such
\* line, every earlier line counted, and no line is scanned after it.
C4_ErrorLineNumber ==
    /\ (pc = "returned" /\ ret.err.kind = "line") => seen.failAt > 0
    /\ seen.failAt > 0 =>
          /\ pc = "returned"
          /\ ret.err.kind = "line"
          /\ ret.err.line = seen.failAt
          /\ seen.n = seen.failAt
          /\ line = seen.failAt

\* the fifth line fails, after a section header, an Updated line, a column
\* header row and a client row
C4_Witness ==
    /\ ret.err.kind = "line"
    /\ ret.err.line = 5
    /\ s.state = stateClients
    /\ seen.updSeen
    /\ seen.nSkipped = 1
    /\ Len(s.Clients) = 1
    /\ seen.nClientRows = 2

\* C5: Parse returns either the snapshot and no error, or an error and no
\* snapshot, whatever the Status already holds.
C5_SnapshotOrError ==
    pc = "returned" =>
        \/ ret.err = NoError /\ ret.status = <<s>>
        \/ ret.err # NoError /\ ret.status = <<>>

\* a line error after a client and the queue length were read
C5_Witness ==
    /\ pc = "returned"
    /\ ret.err.kind = "line"
    /\ ret.status = <<>>
    /\ Len(s.Clients) > 0
    /\ s.MaxQueue = 39

\* C6: when the input ends with no terminal marker delivered and no line
\* failing, Parse returns without error the snapshot that every line
\* delivered is to give.
C6_EndOfInput ==
    (pc = "returned" /\ scanner = "EOF" /\ seen.endAt = 0 /\ seen.failAt = 0) =>
        /\ ret = [status |-> <<s>>, err |-> NoError]
        /\ Snapshot(s) = seen.snap
        /\ line = seen.n

\* the input ends after a client, a route and an Updated line
C6_Witness ==
    /\ pc = "returned"
    /\ scanner = "EOF"
    /\ seen.endAt = 0
    /\ seen.n = 5
    /\ Len(s.Clients) = 1
    /\ Len(s.Routes) = 1
    /\ s.Updated = ExpectedTime
    /\ ret.err = NoError

\* C7: while every line delivered stands in the status-file format, Parse
\* does not fail (it returns the snapshot once the input has ended without a
\* read error), there are as many clients as rows met in the Clients section
\* and as many routes as rows met in the Routes section, column header rows
\* not counted.
C7_RecordCounts ==
    seen.inFormat =>
        /\ pc # "panicked"
        /\ ret.err.kind # "line"
        /\ (pc = "returned" /\ scanner # "read") =>
              ret = [status |-> <<s>>, err |-> NoError]
        /\ Len(s.Clients) = seen.nClientRows
        /\ Len(s.Routes) = seen.nRouteRows

\* a header, a column header row and a client, then a header and a route
C7_Witness ==
    /\ seen.inFormat
    /\ seen.nSkipped = 1
    /\ Len(s.Clients) = 1
    /\ Len(s.Routes) = 1
    /\ pc = "returned"
    /\ ret.err = NoError

\* C8: a row whose first field is the column label of the section it stands
\* in, its record not parsing, is passed over: no error, no record, the
\* section as before, and the loop goes on. A failing row that carries the
\* label of the other section fails the parse.
C8_ColumnHeaderSkipped ==
    seen.n >= 1 =>
        /\ (\/ prev.state = stateClients /\ t \in ClientColumnLns
            \/ prev.state = stateRoutes /\ t \in RouteColumnLns) =>
              /\ s = prev
              /\ pc # "panicked"
              /\ ret.err.kind # "line"
              /\ scanner = "nil" => pc = "loop"
        /\ (\/ prev.state = stateClients /\ t \in RouteColumnLns
            \/ prev.state = stateRoutes /\ t \in ClientColumnLns) =>
              /\ pc = "returned"
              /\ ret.status = <<>>
              /\ ret.err.kind = "line"
              /\ ret.err.line = seen.n

\* the column header row of the Clients section met after a client row
C8_Witness ==
    /\ prev.state = stateClients
    /\ t = LnClientCols
    /\ Len(s.Clients) = 1
    /\ pc = "loop"

\* C9: an Updated line leaves the section as it was, a section header sets
\* the section it names, and while the loop runs the section is the one of
\* the last header and the records are those the rows give in that section.
C9_UpdatedKeepsSection ==
    seen.n >= 1 =>
        /\ t \in UpdatedLns => s.state = prev.state
        /\ t \in HeaderLns => s.state = HeaderSection(t)
        /\ pc = "loop" => s.state = seen.sec /\ Snapshot(s) = seen.snap

\* a route row appended in the Routes section after an Updated line
C9_Witness ==
    /\ seen.updSeen
    /\ prev.state = stateRoutes
    /\ prev.Clients # <<>>
    /\ t = LnRoute2
    /\ Len(s.Routes) = Len(prev.Routes) + 1
    /\ pc = "loop"

(***************************************************************************)
(* parseRouteAddr on its own: the text is built from an address, an        *)
(* optional "/" and prefix length, and an optional "C", and the result is  *)
(* compared with what it was built from.                                   *)
(***************************************************************************)

\* the addresses: the text, the 16 bytes it stands for (<<>> when it is no
\* address), whether it is in dotted form, and whether it is an IPv4 address
RouteBases ==
    { [text |-> <<"1","0",".","0",".","0",".","1">>,
       ip |-> <<0, 0, 0, 0, 0, 0, 0, 0, 0, 0, 255, 255, 10, 0, 0, 1>>,
       dotted |-> TRUE, v4 |-> TRUE],
      [text |-> <<"1","0",".","1",".","0",".","1">>,
       ip |-> <<0, 0, 0, 0, 0, 0, 0, 0, 0, 0, 255, 255, 10, 1, 0, 1>>,
       dotted |-> TRUE, v4 |-> TRUE],
      [text |-> <<"1","0",".","3",".","0",".","1">>,
       ip |-> <<0, 0, 0, 0, 0, 0, 0, 0, 0, 0, 255, 255, 10, 3, 0, 1>>,
       dotted |-> TRUE, v4 |-> TRUE],
      [text |-> <<":",":","1">>,
       ip |-> <<0, 0, 0, 0, 0, 0, 0, 0, 0, 0, 0, 0, 0, 0, 0, 1>>,
       dotted |-> FALSE, v4 |-> FALSE],
      [text |-> <<"2","0","0","1",":","d","b","8",":",":","a">>,
       ip |-> <<32, 1, 13, 184, 0, 0, 0, 0, 0, 0, 0, 0, 0, 0, 0, 10>>,
       dotted |-> FALSE, v4 |-> FALSE],
      [text |-> <<":",":","f","f","f","f",":","a","0","0",":","1">>,
       ip |-> <<0, 0, 0, 0, 0, 0, 0, 0, 0, 0, 255, 255, 10, 0, 0, 1>>,
       dotted |-> FALSE, v4 |-> TRUE],
      [text |-> <<"1","0",".","0",".","0",".","2","5","6">>,
       ip |-> <<>>, dotted |-> TRUE, v4 |-> TRUE],
      [text |-> <<"t","e","s","t","1">>,
       ip |-> <<>>, dotted |-> FALSE, v4 |-> FALSE],
      [text |-> <<>>, ip |-> <<>>, dotted |-> FALSE, v4 |-> FALSE] }

\* the prefix lengths: whether one is given, its text and its value (-1 for
\* text that is no number)
RoutePrefixes ==
    { [given |-> FALSE, text |-> <<>>, n |-> -1],
      [given |-> TRUE, text |-> <<"0">>, n |-> 0],
      [given |-> TRUE, text |-> <<"1","6">>, n |-> 16],
      [given |-> TRUE, text |-> <<"2","0">>, n |-> 20],
      [given |-> TRUE, text |-> <<"3","2">>, n |-> 32],
      [given |-> TRUE, text |-> <<"3","3">>, n |-> 33],
      [given |-> TRUE, text |-> <<"1","2","8">>, n |-> 128],
      [given |-> TRUE, text |-> <<"1","2","9">>, n |-> 129],
      [given |-> TRUE, text |-> <<"x">>, n |-> -1] }

RouteArgs == [base : RouteBases, pfx : RoutePrefixes, remote : BOOLEAN]

RouteText(a) ==
    a.base.text
      \o (IF a.pfx.given THEN <<"/">> \o a.pfx.text ELSE <<>>)
      \o (IF a.remote THEN <<"C">> ELSE <<>>)

\* bit j of mask m, counted from 1 at the most significant bit of the first byte
MaskBit(m, j) == (m[((j - 1) \div 8) + 1] \div (2 ^ (7 - ((j - 1) % 8)))) % 2

\* m is the mask of the given size in bits whose first n bits, and no other, are set
IsPrefixMask(m, n, bits) ==
    /\ Len(m) * 8 = bits
    /\ \A j \in 1..bits : MaskBit(m, j) = (IF j <= n THEN 1 ELSE 0)

InitRouteAddr ==
    /\ s = ZeroStatus
    /\ scanner = "nil"
    /\ line = 0
    /\ t = <<>>
    /\ pc = "loop"
    /\ ret = [status |-> <<>>, err |-> NoError]
    /\ prev = ZeroStatus
    /\ seen = ZeroSeen
    /\ \E a \in RouteArgs : arg = <<a>>
    /\ out = <<>>
    /\ file = "none"
    /\ first = ZeroFirst

CallParseRouteAddr ==
    /\ arg # <<>>
    /\ out = <<>>
    /\ out' = <<parseRouteAddr(RouteText(arg[1]))>>
    /\ UNCHANGED <<s, scanner, line, t, pc, ret, prev, seen, arg, file, first>>

SpecRouteAddr == InitRouteAddr /\ [][CallParseRouteAddr]_vars

\* C10: the result is remote exactly when the text ends in "C"; with the "C"
\* taken off, an address with a prefix length that its size allows gives that
\* address and the mask of that many bits, a bare address gives that address
\* and the full mask of its family (32 bits for IPv4, 128 for IPv6), and any
\* other text fails.
C10_RouteAddr ==
    out # <<>> =>
        LET a    == arg[1]
            r    == out[1]
            bits == IF a.base.dotted THEN 32 ELSE 128
        IN  IF a.base.ip = <<>> THEN r.err # "nil"
            ELSE IF ~a.pfx.given
            THEN /\ r.err = "nil"
                 /\ r.v.Remote = a.remote
                 /\ r.v.IP = a.base.ip
                 /\ IsPrefixMask(r.v.Mask, IF a.base.v4 THEN 32 ELSE 128,
                                 IF a.base.v4 THEN 32 ELSE 128)
            ELSE IF a.pfx.n \in 0..bits
            THEN /\ r.err = "nil"
                 /\ r.v.Remote = a.remote
                 /\ r.v.IP = a.base.ip
                 /\ IsPrefixMask(r.v.Mask, a.pfx.n, bits)
            ELSE r.err # "nil"

\* "10.1.0.1C" read as 10.1.0.1/32, remote
C10_Witness ==
    /\ out # <<>>
    /\ RouteText(arg[1]) = <<"1","0",".","1",".","0",".","1","C">>
    /\ out[1] = [err |-> "nil",
                 v |-> [IP |-> <<0, 0, 0, 0, 0, 0, 0, 0, 0, 0, 255, 255, 10, 1, 0, 1>>,
                        Mask |-> <<255, 255, 255, 255>>, Remote |-> TRUE]]

(***************************************************************************)
(* Properties of the records and of the classification                     *)
(***************************************************************************)

\* C11: a well-formed client row appends the record whose fields are, in
\* column order, the name, the address and port, the bytes received, the
\* bytes sent and the time of the row; a well-formed route row appends the
\* record of its route address, name, address and port, and time; and the
\* clients and the routes are the records of the rows in the order the rows
\* were delivered.
C11_RecordFields ==
    seen.n >= 1 =>
        /\ (prev.state = stateClients /\ t = LnClient) =>
              s.Clients =
                Append(prev.Clients,
                       [CommonName    |-> <<"t","e","s","t","1">>,
                        RealAddress   |->
                            [IP |-> <<0, 0, 0, 0, 0, 0, 0, 0, 0, 0, 255, 255, 6, 6, 6, 6>>,
                             Port |-> 1000],
                        BytesReceived |-> 100,
                        BytesSent     |-> 98,
                        Since         |-> ExpectedTime])
        /\ (prev.state = stateRoutes /\ t \in {LnRoute1, LnRoute2, LnRoute3}) =>
              s.Routes =
                Append(prev.Routes,
                       [VirtualAddress |-> ExpectedVirtualAddress(t),
                        CommonName     |-> <<"t","e","s","t","1">>,
                        RealAddress    |-> ExpectedRemote,
                        LastRef        |-> ExpectedTime])
        /\ s.Clients = seen.snap.Clients
        /\ s.Routes = seen.snap.Routes

\* a client, then the routes 10.1.0.1C and 10.0.0.1 in that order
C11_Witness ==
    /\ Len(s.Clients) = 1
    /\ s.Clients[1].BytesReceived = 100
    /\ s.Clients[1].BytesSent = 98
    /\ s.Routes = <<ExpectedRoute(LnRoute2), ExpectedRoute(LnRoute1)>>

(***************************************************************************)
(* ParseFile: os.Open, then Parse on the file, file.Close() deferred.      *)
(* pc is "open" before os.Open, "loop" while Parse reads, "returned" or    *)
(* "panicked" when Parse is left, and "done" or "crashed" when ParseFile   *)
(* is left.                                                                *)
(***************************************************************************)
\* the error of os.Open
OpenError == [kind |-> "open", line |-> 0, msg |-> "open: no such file or directory"]

\* the lines the file holds: those of status_test.go, a client row with a
\* malformed integer and a queue length row without a value
FileLns ==
    { LnClientList, LnUpdated, LnClientCols, LnClient, LnRoutingTable,
      LnRouteCols, LnRoute1, LnRoute2, LnRoute3, LnGlobalStats, LnStatQueue,
      LnEND, LnClientBadInt, LnStatNoValue }

InitFile ==
    /\ s = ZeroStatus
    /\ scanner = "nil"
    /\ line = 0
    /\ t = <<>>
    /\ pc = "open"
    /\ ret = [status |-> <<>>, err |-> NoError]
    /\ prev = ZeroStatus
    /\ seen = ZeroSeen
    /\ arg = <<>>
    /\ out = <<>>
    /\ file = "none"
    /\ first = ZeroFirst

\* file, err := os.Open(path); if err != nil { return nil, err }
Open(ok) ==
    /\ pc = "open"
    /\ IF ok
       THEN file' = "open" /\ pc' = "loop" /\ ret' = ret
       ELSE file' = file /\ pc' = "done" /\ ret' = [status |-> <<>>, err |-> OpenError]
    /\ UNCHANGED <<s, scanner, line, t, prev, seen, arg, out, first>>

\* a faulty variant of Close: the file is closed where Parse gave no error
CloseOnSuccessOnly ==
    /\ pc \in {"returned", "panicked"}
    /\ file = "open"
    /\ file' = IF pc = "returned" /\ ret.err = NoError THEN "closed" ELSE file
    /\ pc' = IF pc = "returned" THEN "done" ELSE "crashed"
    /\ UNCHANGED <<s, scanner, line, t, ret, prev, seen, arg, out, first>>

\* defer file.Close(): run when ParseFile is left, by return or by panic
Close ==
    /\ pc \in {"returned", "panicked"}
    /\ file = "open"
    /\ file' = "closed"
    /\ pc' = IF pc = "returned" THEN "done" ELSE "crashed"
    /\ UNCHANGED <<s, scanner, line, t, ret, prev, seen, arg, out, first>>

NextFile ==
    \/ \E ok \in BOOLEAN : Open(ok)
    \/ \E e \in {"EOF", "read"} : ReadEnd(e)
    \/ \E text \in FileLns : Scan(text) /\ UNCHANGED first
    \/ ScanStop
    \/ Close

SpecFile == InitFile /\ [][NextFile]_vars

\* C12: once ParseFile has returned, either the file was opened and is
\* closed, and what is returned is what Parse returned, or the open failed,
\* no handle was ever held, and the open error is returned with no snapshot;
\* the handle is open exactly while Parse is at work on it.
C12_FileReleased ==
    /\ pc = "done" =>
          \/ file = "closed" /\ ret.err # OpenError
                             /\ (ret.err = NoError => ret.status = <<s>>)
                             /\ (ret.err # NoError => ret.status = <<>>)
          \/ file = "none" /\ ret = [status |-> <<>>, err |-> OpenError]
                           /\ line = 0 /\ s = ZeroStatus
    /\ pc = "crashed" => file = "closed"
    /\ file = "open" <=> pc \in {"loop", "returned", "panicked"}
    /\ file = "none" <=> (pc = "open" \/ (pc = "done" /\ ret.err = OpenError))

\* ParseFile returned a line error of Parse and the file is closed
C12_Witness ==
    /\ pc = "done"
    /\ file = "closed"
    /\ ret.status = <<>>
    /\ ret.err.kind = "line"
    /\ ret.err.line = 3

\* C13: a line that holds a section header marker, in whatever section it is
\* delivered and whatever else it holds, sets the section of the first of
\* CLIENT LIST, ROUTING TABLE and GLOBAL STATS it holds and does nothing
\* else: no record, no timestamp, no queue length, no error, and the loop
\* goes on. The terminal marker comes before the headers, and a good Updated
\* line is not taken for a row of the section.
C13_Precedence ==
    seen.n >= 1 =>
        /\ t \in { LnClientList, LnRoutingTable, LnGlobalStats, LnStatsRoutes,
                   LnClientNamedList, LnUpdatedStats } =>
              /\ s.state =
                    IF t \in {LnClientList, LnClientNamedList} THEN stateClients
                    ELSE IF t \in {LnRoutingTable, LnStatsRoutes} THEN stateRoutes
                    ELSE stateStats
              /\ Snapshot(s) = Snapshot(prev)
              /\ pc # "panicked"
              /\ ret.err.kind # "line"
              /\ scanner = "nil" => pc = "loop"
        /\ t \in {LnEmpty, LnEND} => s.state = stateEnd /\ pc = "returned"
        /\ t \in {LnUpdated, LnUpdated2} =>
              /\ s.Clients = prev.Clients
              /\ s.Routes = prev.Routes
              /\ ret.err.kind # "line"

\* "CLIENT LIST,6.6.6.6:1000,100,98,Thu Nov  5 15:34:43 2015", a well-formed
\* client row but for its name, delivered in the Routes section after a client
\* and a route: the section is Clients and nothing is appended
C13_Witness ==
    /\ t = LnClientNamedList
    /\ prev.state = stateRoutes
    /\ Len(prev.Clients) = 1
    /\ Len(prev.Routes) = 1
    /\ s.state = stateClients
    /\ Snapshot(s) = Snapshot(prev)
    /\ pc = "loop"

\* C14: a line "Updated," with a well-formed timestamp, in whatever section
\* and before any header too, sets Updated to that timestamp and changes
\* nothing else, without error, and the loop goes on; no other line changes
\* Updated, so the last such line gives it. A line "Updated," with a malformed
\* timestamp, or with none, fails the parse with the number of the line, no
\* snapshot, and the Status as it was.
C14_UpdatedLine ==
    seen.n >= 1 =>
        /\ t = LnUpdated =>
              s = [prev EXCEPT !.Updated =
                      [year |-> 2015, month |-> 11, day |-> 5,
                       hour |-> 15, min |-> 34, sec |-> 43]]
        /\ t = LnUpdated2 =>
              s = [prev EXCEPT !.Updated =
                      [year |-> 2015, month |-> 11, day |-> 6,
                       hour |-> 9, min |-> 0, sec |-> 1]]
        /\ t \in {LnUpdated, LnUpdated2} =>
              /\ pc # "panicked"
              /\ ret.err.kind # "line"
              /\ scanner = "nil" => pc = "loop"
        /\ t \in {LnUpdatedBad, LnUpdatedEmpty} =>
              /\ pc = "returned"
              /\ ret.status = <<>>
              /\ ret.err.kind = "line"
              /\ ret.err.line = seen.n
              /\ s = prev
        /\ t \notin {LnUpdated, LnUpdated2} => s.Updated = prev.Updated

\* before any header, a second Updated line replaces the time of the first
C14_Witness ==
    /\ seen.n = 2
    /\ prev.state = stateUnknown
    /\ prev.Updated = ExpectedTime
    /\ t = LnUpdated2
    /\ s.Updated.day = 6
    /\ pc = "loop"

\* C16: every step leaves Clients and Routes as they are, or puts one
\* record at the end of Clients, the section being Clients, and leaves
\* Routes, or puts one record at the end of Routes, the section being Routes,
\* and leaves Clients; the records already there stay, in their order.
C16_AppendOnly ==
    [][ \/ /\ s'.Clients = s.Clients
           /\ s'.Routes = s.Routes
        \/ /\ s.state = stateClients
           /\ Len(s'.Clients) = Len(s.Clients) + 1
           /\ SubSeq(s'.Clients, 1, Len(s.Clients)) = s.Clients
           /\ s'.Routes = s.Routes
        \/ /\ s.state = stateRoutes
           /\ Len(s'.Routes) = Len(s.Routes) + 1
           /\ SubSeq(s'.Routes, 1, Len(s.Routes)) = s.Routes
           /\ s'.Clients = s.Clients ]_vars

\* a second, different route appended after the first, a client kept
C16_Witness ==
    /\ prev.state = stateRoutes
    /\ Len(prev.Clients) = 1
    /\ Len(prev.Routes) = 1
    /\ Len(s.Routes) = 2
    /\ s.Routes[1] = prev.Routes[1]
    /\ s.Routes[2] # s.Routes[1]
    /\ s.Clients = prev.Clients

\* C17: in the Stats section the row "Max bcast / mcast queue length,39"
\* sets MaxQueue to 39 and changes nothing else, without error; the row
\* "Max queue length,3x" fails the parse with the number of the line; a row
\* whose first field does not hold "queue length" changes nothing and gives
\* no error; and no row, the queue length row without a second field
\* included, adds a client or a route.
C17_Stats ==
    (seen.n >= 1 /\ prev.state = stateStats /\ t \in RowLns) =>
        /\ t = LnStatQueue =>
              /\ s = [prev EXCEPT !.MaxQueue = 39]
              /\ ret.err.kind # "line"
              /\ scanner = "nil" => pc = "loop"
        /\ t = LnStatBadValue =>
              /\ s = prev
              /\ pc = "returned"
              /\ ret.status = <<>>
              /\ ret.err.kind = "line"
              /\ ret.err.line = seen.n
        /\ t \notin {LnStatQueue, LnStatBadValue, LnStatNoValue} =>
              /\ s = prev
              /\ pc # "panicked"
              /\ ret.err.kind # "line"
              /\ scanner = "nil" => pc = "loop"
        /\ s.Clients = prev.Clients
        /\ s.Routes = prev.Routes

\* "Max unicast,5" after the queue length was set to 39, a client read before
C17_Witness ==
    /\ prev.state = stateStats
    /\ prev.MaxQueue = 39
    /\ Len(prev.Clients) = 1
    /\ t = LnStatOther
    /\ s = prev
    /\ pc = "loop"

(***************************************************************************)
(* The parseUnknown-based Parse of status.go, lines 116 to 293. Its Status *)
(* has no section field: the section is the local cs of Parse. The field   *)
(* parsers, parseStructParts and parseClient are the same text in both     *)
(* formulations. first is [s, cs, line, pc, ret].                          *)
(***************************************************************************)
\* a faulty variant of parseUnknown: the Updated prefix is looked for before
\* the section headers
parseUnknownUpdatedFirst(st, text) ==
    LET Time(p) == [s |-> [st EXCEPT !.Updated = p.v], cs |-> stateUnknown, err |-> p.err]
    IN  IF text = TxtEND THEN [s |-> st, cs |-> stateEnd, err |-> "nil"]
        ELSE IF text = <<>> THEN [s |-> st, cs |-> stateUnknown, err |-> "nil"]
        ELSE IF HasPrefix(text, TxtUpdatedComma)
        THEN Time(parseTime(SubSeq(text, 9, Len(text))))
        ELSE IF Contains(text, TxtClientList)
        THEN [s |-> st, cs |-> stateClients, err |-> "nil"]
        ELSE IF Contains(text, TxtRoutingTable)
        THEN [s |-> st, cs |-> stateRoutes, err |-> "nil"]
        ELSE IF Contains(text, TxtGlobalStats)
        THEN [s |-> st, cs |-> stateStats, err |-> "nil"]
        ELSE [s |-> st, cs |-> stateUnknown, err |-> "Unexpected header text"]

\* parseUnknown: the Status it leaves, the section it names, the error.
\* s.Updated, err = parseTime(...) stores the zero time where parseTime fails.
parseUnknown(st, text) ==
    LET Time(p) == [s |-> [st EXCEPT !.Updated = p.v], cs |-> stateUnknown, err |-> p.err]
    IN  IF text = TxtEND THEN [s |-> st, cs |-> stateEnd, err |-> "nil"]
        ELSE IF text = <<>> THEN [s |-> st, cs |-> stateUnknown, err |-> "nil"]
        ELSE IF Contains(text, TxtClientList)
        THEN [s |-> st, cs |-> stateClients, err |-> "nil"]
        ELSE IF Contains(text, TxtRoutingTable)
        THEN [s |-> st, cs |-> stateRoutes, err |-> "nil"]
        ELSE IF Contains(text, TxtGlobalStats)
        THEN [s |-> st, cs |-> stateStats, err |-> "nil"]
        ELSE IF HasPrefix(text, TxtUpdatedComma)
        THEN Time(parseTime(SubSeq(text, 9, Len(text))))
        ELSE [s |-> st, cs |-> stateUnknown, err |-> "Unexpected header text"]

parseRoutes(st, text) ==
    LET Row(parts, r) ==
            IF r.err # "nil"
            THEN IF parts[1] = TxtVirtualAddress
                 THEN [s |-> st, err |-> "nil"]
                 ELSE [s |-> st, err |-> r.err]
            ELSE [s |-> [st EXCEPT !.Routes = Append(@, r.v.val)], err |-> "nil"]
        Parts(parts) ==
            Row(parts,
                parseStructParts([fields |-> RouteFields, val |-> ZeroRoute], parts))
    IN  Parts(Split(text, ","))

parseStats(st, text) ==
    LET Set(p) ==
            IF p.err # "nil" THEN [s |-> st, err |-> p.err]
            ELSE [s |-> [st EXCEPT !.MaxQueue = p.v], err |-> "nil"]
        Parts(parts) ==
            IF Contains(parts[1], TxtQueueLength)
            THEN IF Len(parts) < 2 THEN [s |-> st, err |-> PanicIndex]
                 ELSE Set(ParseUint(parts[2]))
            ELSE [s |-> st, err |-> "nil"]
    IN  Parts(Split(text, ","))

\* switch cs { case stateClients: ... }: no case for any other section
SwitchSection(cs, st, text) ==
    CASE cs = stateClients -> parseClient(st, text)
      [] cs = stateRoutes  -> parseRoutes(st, text)
      [] cs = stateStats   -> parseStats(st, text)
      [] OTHER             -> [s |-> st, err |-> "nil"]

\* one turn of the loop "for cs < stateEnd && scanner.Scan()", and what
\* follows the loop when the turn leaves cs at stateEnd
StepFirst(f, text) ==
    LET n == f.line + 1
        Row(r) ==
            IF r.err = "nil" THEN [f EXCEPT !.line = n, !.s = r.s]
            ELSE IF r.err = PanicIndex
            THEN [f EXCEPT !.line = n, !.s = r.s, !.pc = "panicked"]
            ELSE [f EXCEPT !.line = n, !.s = r.s, !.pc = "returned",
                           !.ret = [status |-> <<>>, err |-> LineError(n, r.err)]]
        Header(u) ==
            IF u.err = "nil"
            THEN IF u.cs = stateEnd
                 THEN [f EXCEPT !.line = n, !.s = u.s, !.cs = u.cs, !.pc = "returned",
                                !.ret = AfterLoop(u.s)]
                 ELSE IF u.cs > stateUnknown
                 THEN [f EXCEPT !.line = n, !.s = u.s, !.cs = u.cs]
                 ELSE [f EXCEPT !.line = n, !.s = u.s]
            ELSE Row(SwitchSection(f.cs, u.s, text))
    IN  Header(parseUnknown(f.s, text))

\* scanner.Scan() delivers the line to both formulations of Parse
ScanBoth(text) ==
    /\ first.pc = "loop"
    /\ Scan(text)
    /\ first' = StepFirst(first, text)

\* scanner.Scan() returns false in both
ScanStopBoth ==
    /\ pc = "loop"
    /\ first.pc = "loop"
    /\ scanner # "nil"
    /\ pc' = "returned"
    /\ ret' = AfterLoop(s)
    /\ first' = [first EXCEPT !.pc = "returned", !.ret = AfterLoop(first.s)]
    /\ UNCHANGED <<s, scanner, line, t, prev, seen, arg, out, file>>

NextBoth ==
    \/ \E e \in {"EOF", "read"} : ReadEnd(e)
    \/ \E text \in Corpus : ScanBoth(text)
    \/ ScanStopBoth

SpecBoth == Init /\ [][NextBoth]_vars

\* C19: while no empty line, no Updated line with a malformed timestamp and
\* no row before the first section header has been delivered, the two
\* formulations have read as many lines and are both in the loop, with the
\* same section and the same snapshot so far, or have both returned, the same
\* snapshot or the same error with the same line number, or have both been
\* left by the panic of C18 at the same line.
C19_SameResult ==
    (~seen.emptySeen /\ ~seen.badUpdSeen /\ ~seen.straySeen) =>
        /\ pc = first.pc
        /\ line = first.line
        /\ Snapshot(s) = first.s
        /\ pc = "loop" => s.state = first.cs
        /\ pc = "returned" =>
              /\ ret.err = first.ret.err
              /\ Len(ret.status) = Len(first.ret.status)
              /\ ret.status # <<>> => Snapshot(ret.status[1]) = first.ret.status[1]

\* both have returned the snapshot of a client and a route
C19_Witness ==
    /\ ~seen.emptySeen /\ ~seen.badUpdSeen /\ ~seen.straySeen
    /\ pc = "returned"
    /\ first.pc = "returned"
    /\ first.line = 5
    /\ first.ret.err = NoError
    /\ Len(first.ret.status[1].Clients) = 1
    /\ Len(first.ret.status[1].Routes) = 1
    /\ Snapshot(ret.status[1]) = first.ret.status[1]

\* C18, as stated: Parse is never left by a panic; whatever lines it is
\* given, the queue length row without a second field and the line "Updated,"
\* among them, it is in its loop or has returned.
C18_NeverAbnormal ==
    /\ pc \in {"loop", "returned"}
    /\ (seen.n >= 1 /\ t \in {LnStatNoValue, LnUpdatedEmpty} /\ scanner = "nil") =>
          pc = "loop" \/ (pc = "returned" /\ ret.err.kind = "line")

(***************************************************************************)
(* parseClient and parseRoute on their own, on a row built from the first  *)
(* n fields of a well-formed row and, after a whole row, from further      *)
(* fields.                                                                 *)
(***************************************************************************)
\* well-formed rows: the texts of the fields and the record they stand for
FillRows ==
    { [rec  |-> "Client",
       good |-> << <<"t","e","s","t","1">>,
                   <<"6",".","6",".","6",".","6",":","1","0","0","0">>,
                   <<"1","0","0">>, <<"9","8">>,
                   <<"T","h","u"," ","N","o","v"," "," ","5"," ","1","5",":","3","4",":","4","3"," ","2","0","1","5">> >>,
       want |-> [CommonName |-> <<"t","e","s","t","1">>, RealAddress |-> ExpectedRemote,
                 BytesReceived |-> 100, BytesSent |-> 98, Since |-> ExpectedTime]],
      [rec  |-> "Route",
       good |-> << <<"1","0",".","0",".","0",".","1">>,
                   <<"t","e","s","t","1">>,
                   <<"6",".","6",".","6",".","6",":","1","0","0","0">>,
                   <<"T","h","u"," ","N","o","v"," "," ","5"," ","1","5",":","3","4",":","4","3"," ","2","0","1","5">> >>,
       want |-> ExpectedRoute(LnRoute1)],
      [rec  |-> "Route",
       good |-> << <<"1","0",".","1",".","0",".","1","C">>,
                   <<"t","e","s","t","1">>,
                   <<"6",".","6",".","6",".","6",":","1","0","0","0">>,
                   <<"T","h","u"," ","N","o","v"," "," ","5"," ","1","5",":","3","4",":","4","3"," ","2","0","1","5">> >>,
       want |-> ExpectedRoute(LnRoute2)],
      [rec  |-> "Route",
       good |-> << <<"1","0",".","3",".","0",".","1","/","1","6">>,
                   <<"t","e","s","t","1">>,
                   <<"6",".","6",".","6",".","6",":","1","0","0","0">>,
                   <<"T","h","u"," ","N","o","v"," "," ","5"," ","1","5",":","3","4",":","4","3"," ","2","0","1","5">> >>,
       want |-> ExpectedRoute(LnRoute3)] }

\* texts of further fields: "x", the empty text, "10.0.0.256" and "Thu"
FillExtraTexts ==
    { <<"x">>, <<>>, <<"1","0",".","0",".","0",".","2","5","6">>, <<"T","h","u">> }

\* the most further fields a row is given
MaxExtra == 2

FillExtras ==
    UNION { [1..k -> FillExtraTexts] : k \in 0..MaxExtra }

FillArgs ==
    { a \in [row : FillRows, n : 1..5, extra : FillExtras] :
        /\ a.n <= Len(a.row.good)
        /\ a.extra # <<>> => a.n = Len(a.row.good) }

\* the fields joined by commas
RECURSIVE JoinComma(_)
JoinComma(parts) ==
    IF Len(parts) = 1 THEN parts[1]
    ELSE parts[1] \o <<",">> \o JoinComma(SubSeq(parts, 2, Len(parts)))

FillText(a) == JoinComma(SubSeq(a.row.good, 1, a.n) \o a.extra)

\* the client and the route a row of n fields is to give: the first n
\* columns of the record, the other columns zero
WantClient(want, n) ==
    [CommonName    |-> IF n >= 1 THEN want.CommonName ELSE <<>>,
     RealAddress   |-> IF n >= 2 THEN want.RealAddress ELSE [IP |-> <<>>, Port |-> 0],
     BytesReceived |-> IF n >= 3 THEN want.BytesReceived ELSE 0,
     BytesSent     |-> IF n >= 4 THEN want.BytesSent ELSE 0,
     Since         |-> IF n >= 5 THEN want.Since
                       ELSE [year |-> 1, month |-> 1, day |-> 1,
                             hour |-> 0, min |-> 0, sec |-> 0]]

WantRoute(want, n) ==
    [VirtualAddress |-> IF n >= 1 THEN want.VirtualAddress
                        ELSE [IP |-> <<>>, Mask |-> <<>>, Remote |-> FALSE],
     CommonName     |-> IF n >= 2 THEN want.CommonName ELSE <<>>,
     RealAddress    |-> IF n >= 3 THEN want.RealAddress ELSE [IP |-> <<>>, Port |-> 0],
     LastRef        |-> IF n >= 4 THEN want.LastRef
                        ELSE [year |-> 1, month |-> 1, day |-> 1,
                              hour |-> 0, min |-> 0, sec |-> 0]]

InitFill ==
    /\ s = ZeroStatus
    /\ scanner = "nil"
    /\ line = 0
    /\ t = <<>>
    /\ pc = "loop"
    /\ ret = [status |-> <<>>, err |-> NoError]
    /\ prev = ZeroStatus
    /\ seen = ZeroSeen
    /\ \E a \in FillArgs : arg = <<a>>
    /\ out = <<>>
    /\ file = "none"
    /\ first = ZeroFirst

\* the row handed to the parse function of its section, the Status empty
CallRowParser ==
    /\ arg # <<>>
    /\ out = <<>>
    /\ out' = << IF arg[1].row.rec = "Client"
                 THEN parseClient(s, FillText(arg[1]))
                 ELSE parseRoute(s, FillText(arg[1])) >>
    /\ UNCHANGED <<s, scanner, line, t, pc, ret, prev, seen, arg, file, first>>

SpecFill == InitFill /\ [][CallRowParser]_vars

\* C15: a row of the first n fields of a well-formed row, n at least 1,
\* gives no error and appends the one record whose first n columns are those
\* of the row and whose other columns are zero; a whole row followed by
\* further fields, whatever their text, gives no error and appends the record
\* of the whole row.
C15_ShorterListWins ==
    out # <<>> =>
        /\ out[1].err = "nil"
        /\ arg[1].row.rec = "Client" =>
              /\ out[1].s.Clients = <<WantClient(arg[1].row.want, arg[1].n)>>
              /\ out[1].s.Routes = <<>>
        /\ arg[1].row.rec = "Route" =>
              /\ out[1].s.Routes = <<WantRoute(arg[1].row.want, arg[1].n)>>
              /\ out[1].s.Clients = <<>>

\* the whole client row followed by the fields "x" and "10.0.0.256"
C15_Witness ==
    /\ out # <<>>
    /\ arg[1].row.rec = "Client"
    /\ arg[1].n = 5
    /\ arg[1].extra = << <<"x">>, <<"1","0",".","0",".","0",".","2","5","6">> >>
    /\ out[1].err = "nil"
    /\ Len(out[1].s.Clients) = 1
    /\ out[1].s.Clients[1].Since = ExpectedTime

====
